---------------------------- MODULE Spec2Model ----------------------------
(***************************************************************************)
(* Model of the Baasix MCP server's request-dispatch core:                 *)
(*   - configuration loading (baasix/config.js, loadEnvironmentConfig),    *)
(*   - the token cache and getAuthToken,                                   *)
(*   - baasixRequest with its single 401 retry,                            *)
(*   - the CallToolRequestSchema dispatcher and the handlers it routes to. *)
(*                                                                         *)
(* Every `await` on the backend (axios) is a suspension point: the step    *)
(* that issues the call and the step that processes its answer are two     *)
(* actions, and other invocations may run in between.  What follows a      *)
(* backend answer up to the next backend call runs in one turn of the      *)
(* event loop (promise continuations are microtasks).  An `await` of       *)
(* getAuthToken that returned without a backend call also resumes as a     *)
(* microtask, but handlers of invocations received in the same chunk of    *)
(* input start before it: that is a suspension point too (pc "haveToken"). *)
(***************************************************************************)
EXTENDS Integers, Sequences, FiniteSets, TLC

\* ------------------------------------------------------------------ bounds
\* Invocations dispatched in one behaviour.
MaxDispatches == 2
\* Clock advances in one behaviour (each of TimeStep milliseconds).
MaxTicks == 2

\* The invocations that can be in flight at the same time.
Slots == {1, 2}

\* --------------------------------------------------------------- JS values
Undef == "<undefined>"
Null == "<null>"

\* JavaScript truthiness of a string-or-absent value.
Truthy(v) == v \notin {Undef, Null, ""}

\* authExpiry is `null` (the empty tuple) or a number of milliseconds <<n>>.
NullExpiry == <<>>
ExpiryTruthy(e) == Len(e) = 1 /\ e[1] # 0

\* ----------------------------------------------------------- configuration
DEFAULT_CONFIG ==
  [BAASIX_URL |-> "http://localhost:8056",
   BAASIX_AUTH_TOKEN |-> Undef,
   BAASIX_EMAIL |-> "admin@baasix.com",
   BAASIX_PASSWORD |-> "admin@123"]

EmptyConfig ==
  [BAASIX_URL |-> Undef, BAASIX_AUTH_TOKEN |-> Undef,
   BAASIX_EMAIL |-> Undef, BAASIX_PASSWORD |-> Undef]

envVars == {"BAASIX_URL", "BAASIX_AUTH_TOKEN", "BAASIX_EMAIL", "BAASIX_PASSWORD"}

\* { ...a, ...b } where an absent key of b is written Undef.
Spread(a, b) == [k \in envVars |-> IF b[k] # Undef THEN b[k] ELSE a[k]]

\* Variant: the .env file is applied after the process environment.
loadEnvironmentConfigOptDotEnvLast(penv, dotenv, useDefaults, processEnv) ==
  LET c1 == IF useDefaults THEN DEFAULT_CONFIG ELSE EmptyConfig
      c2 == IF processEnv
              THEN [k \in envVars |-> IF Truthy(penv[k]) THEN penv[k] ELSE c1[k]]
              ELSE c1
  IN  Spread(c2, dotenv)

\* loadEnvironmentConfig(options): `dotenv` is the parsed .env file (EmptyConfig
\* when there is none), `penv` the process environment.
loadEnvironmentConfigOpt(penv, dotenv, useDefaults, processEnv) ==
  LET c1 == IF useDefaults THEN DEFAULT_CONFIG ELSE EmptyConfig
      c2 == Spread(c1, dotenv)
  IN  IF processEnv
        THEN [k \in envVars |-> IF Truthy(penv[k]) THEN penv[k] ELSE c2[k]]
        ELSE c2

\* The call the server module makes: loadEnvironmentConfig() with no options.
loadEnvironmentConfig(penv, dotenv) ==
  loadEnvironmentConfigOpt(penv, dotenv, TRUE, TRUE)

\* Strings `new URL(s)` accepts: an absolute URL with a scheme.  Anything else
\* makes the constructor throw.
AbsoluteUrls ==
  {"http://localhost:8056", "http://localhost:9000", "https://api.example.com"}
UrlParses(s) == s \in AbsoluteUrls

\* Variant: one of email and password is enough to count as credentials.
validateConfigEitherCredential(cfg) ==
  LET hasToken == Truthy(cfg.BAASIX_AUTH_TOKEN)
      hasCredentials == Truthy(cfg.BAASIX_EMAIL) \/ Truthy(cfg.BAASIX_PASSWORD)
      errors ==
        (IF ~Truthy(cfg.BAASIX_URL) THEN <<"BAASIX_URL is required">> ELSE <<>>)
        \o (IF ~hasToken /\ ~hasCredentials
              THEN <<"Either BAASIX_AUTH_TOKEN or both BAASIX_EMAIL and BAASIX_PASSWORD must be provided">>
              ELSE <<>>)
        \o (IF Truthy(cfg.BAASIX_URL) /\ ~UrlParses(cfg.BAASIX_URL)
              THEN <<"BAASIX_URL must be a valid URL">> ELSE <<>>)
      warnings ==
        IF hasToken /\ hasCredentials
          THEN <<"Both token and credentials provided - token will take priority">>
          ELSE <<>>
  IN  [errors |-> errors, warnings |-> warnings, isValid |-> Len(errors) = 0]

\* validateConfig(config): { errors, warnings, isValid }.
validateConfig(cfg) ==
  LET hasToken == Truthy(cfg.BAASIX_AUTH_TOKEN)
      hasCredentials == Truthy(cfg.BAASIX_EMAIL) /\ Truthy(cfg.BAASIX_PASSWORD)
      errors ==
        (IF ~Truthy(cfg.BAASIX_URL) THEN <<"BAASIX_URL is required">> ELSE <<>>)
        \o (IF ~hasToken /\ ~hasCredentials
              THEN <<"Either BAASIX_AUTH_TOKEN or both BAASIX_EMAIL and BAASIX_PASSWORD must be provided">>
              ELSE <<>>)
        \o (IF Truthy(cfg.BAASIX_URL) /\ ~UrlParses(cfg.BAASIX_URL)
              THEN <<"BAASIX_URL must be a valid URL">> ELSE <<>>)
      warnings ==
        IF hasToken /\ hasCredentials
          THEN <<"Both token and credentials provided - token will take priority">>
          ELSE <<>>
  IN  [errors |-> errors, warnings |-> warnings, isValid |-> Len(errors) = 0]

\* createConfig(options): the loaded configuration, what validateConfig said of
\* it, whether the Error was thrown, and the warnings passed to console.warn.
createConfig(penv, dotenv, useDefaults, processEnv) ==
  LET cfg == loadEnvironmentConfigOpt(penv, dotenv, useDefaults, processEnv)
      validation == validateConfig(cfg)
  IN  [config |-> cfg,
       errors |-> validation.errors,
       warnings |-> validation.warnings,
       isValid |-> validation.isValid,
       thrown |-> ~validation.isValid,
       warned |-> IF validation.isValid THEN validation.warnings ELSE <<>>]

\* The environments the server is started in (process environment, .env file).
EnvNone == EmptyConfig
EnvToken == [EmptyConfig EXCEPT !.BAASIX_AUTH_TOKEN = "explicit-token"]
EnvCreds == [EmptyConfig EXCEPT !.BAASIX_EMAIL = "a@b.com", !.BAASIX_PASSWORD = "x"]
DotEnvBlankEmail == [EmptyConfig EXCEPT !.BAASIX_EMAIL = ""]
EnvUrlOnly == [EmptyConfig EXCEPT !.BAASIX_URL = "https://api.example.com"]

StartEnvironments ==
  { <<EnvUrlOnly, EmptyConfig>>,       \* only BAASIX_URL: built-in defaults
    <<EnvCreds, EmptyConfig>>,         \* email/password mode
    <<EnvToken, EmptyConfig>>,         \* explicit-token mode
    <<EnvNone, DotEnvBlankEmail>>,     \* .env blanks the default email
    <<EnvToken, DotEnvBlankEmail>> }

\* ------------------------------------------------------------------- time
\* authExpiry = Date.now() + (60 * 60 * 1000)
TokenTTL == 60 * 60 * 1000
\* The clock advances in steps of half the validity window.
TimeStep == TokenTTL \div 2

\* ---------------------------------------------------------------- backend
Tokens == {"tokA", "tokB"}
Msgs == {"m1", "m2"}
Bodies == {"b1", "b2"}

\* What axios resolves or rejects with.  kind "ok": 2xx; "http": an error
\* status with a response; "network": no response at all.
OkResponses == [kind : {"ok"}, status : {200}, data : Bodies, message : {Undef}]
Unauthorized == [kind : {"http"}, status : {401}, data : {Undef}, message : Msgs]
\* A 500 whose body has no `message`: the message is axios' own.
ServerErrors == [kind : {"http"}, status : {500}, data : {Undef}, message : {Undef}]
HttpErrors == Unauthorized \cup ServerErrors
NetworkErrors == [kind : {"network"}, status : {0}, data : {Undef}, message : {Undef}]
ApiResponses == OkResponses \cup HttpErrors \cup NetworkErrors

\* Answers to POST /auth/login; data is response.data.token.
LoginOk == [kind : {"ok"}, status : {200}, data : Tokens \cup {Undef}, message : {Undef}]
LoginResponses == LoginOk \cup HttpErrors \cup NetworkErrors

\* axios' own error.message.
AxiosMessage(r) ==
  IF r.kind = "network" THEN "Network Error"
  ELSE IF r.status = 401 THEN "Request failed with status code 401"
  ELSE "Request failed with status code 500"

\* error.response?.data?.message || error.message
UpstreamMessage(r) ==
  IF r.kind = "http" /\ Truthy(r.message) THEN r.message ELSE AxiosMessage(r)


\* ---------------------------------------------------------- tool registry
\* The case labels of the CallToolRequestSchema handler's switch.
SwitchCases ==
  { "baasix_list_schemas", "baasix_get_schema", "baasix_create_schema",
    "baasix_update_schema", "baasix_delete_schema", "baasix_add_index",
    "baasix_remove_index", "baasix_create_relationship",
    "baasix_update_relationship", "baasix_delete_relationship",
    "baasix_export_schemas", "baasix_import_schemas",
    "baasix_list_items", "baasix_get_item", "baasix_create_item",
    "baasix_update_item", "baasix_delete_item",
    "baasix_list_files", "baasix_get_file_info", "baasix_delete_file",
    "baasix_auth_status", "baasix_refresh_auth",
    "baasix_generate_report", "baasix_collection_stats",
    "baasix_list_notifications", "baasix_send_notification",
    "baasix_mark_notification_seen",
    "baasix_get_settings", "baasix_update_settings",
    "baasix_list_roles", "baasix_list_permissions", "baasix_get_permission",
    "baasix_get_permissions", "baasix_create_permission",
    "baasix_update_permission", "baasix_delete_permission",
    "baasix_reload_permissions", "baasix_update_permissions",
    "baasix_server_info", "baasix_sort_items",
    "baasix_register_user", "baasix_login", "baasix_send_invite",
    "baasix_verify_invite", "baasix_send_magic_link",
    "baasix_get_user_tenants", "baasix_switch_tenant", "baasix_logout",
    "baasix_get_current_user" }

\* The names of the descriptors the ListToolsRequestSchema handler returns, in
\* the order of its array literal.
ListedTools ==
  << "baasix_list_schemas", "baasix_get_schema", "baasix_create_schema",
     "baasix_update_schema", "baasix_delete_schema", "baasix_add_index",
     "baasix_remove_index", "baasix_create_relationship",
     "baasix_update_relationship", "baasix_delete_relationship",
     "baasix_export_schemas", "baasix_import_schemas", "baasix_list_items",
     "baasix_get_item", "baasix_create_item", "baasix_update_item",
     "baasix_delete_item", "baasix_list_files", "baasix_get_file_info",
     "baasix_delete_file", "baasix_auth_status", "baasix_refresh_auth",
     "baasix_generate_report", "baasix_collection_stats",
     "baasix_list_notifications", "baasix_send_notification",
     "baasix_mark_notification_seen", "baasix_get_settings",
     "baasix_update_settings", "baasix_list_roles",
     "baasix_list_permissions", "baasix_get_permission",
     "baasix_get_permissions", "baasix_create_permission",
     "baasix_update_permission", "baasix_delete_permission",
     "baasix_reload_permissions", "baasix_update_permissions",
     "baasix_server_info", "baasix_sort_items", "baasix_register_user",
     "baasix_login", "baasix_send_invite", "baasix_verify_invite",
     "baasix_send_magic_link", "baasix_get_user_tenants",
     "baasix_switch_tenant", "baasix_logout", "baasix_get_current_user" >>

\* Tools the README lists under 'Available Tools' in its Realtime table.
ReadmeRealtimeTools ==
  { "baasix_realtime_status", "baasix_realtime_config",
    "baasix_realtime_collections", "baasix_realtime_enable",
    "baasix_realtime_disable" }

\* Every name the README lists under 'Available Tools': the names of the
\* other tables are those of the switch.
ReadmeTools == SwitchCases \cup ReadmeRealtimeTools

\* Handlers that make one baasixRequest without reading their arguments.
NoArgsTools ==
  { "baasix_export_schemas", "baasix_list_roles", "baasix_reload_permissions",
    "baasix_get_user_tenants", "baasix_logout" }

\* Variant: every handler that reads its arguments defaults them to {}.
HandlerOfDefaultsArgs(name) ==
  IF name = "baasix_auth_status" THEN "auth_status"
  ELSE IF name = "baasix_refresh_auth" THEN "refresh_auth"
  ELSE IF name = "baasix_server_info" THEN "server_info"
  ELSE "no_args"

\* The shape of the handler a case label routes to.
HandlerOf(name) ==
  IF name = "baasix_auth_status" THEN "auth_status"
  ELSE IF name = "baasix_refresh_auth" THEN "refresh_auth"
  ELSE IF name = "baasix_server_info" THEN "server_info"
  ELSE IF name \in NoArgsTools THEN "no_args"
  ELSE "reads_args"

\* inputSchema.required of the tool's descriptor (top level; [] when absent).
RequiredFields(name) ==
  CASE name \in {"baasix_get_schema", "baasix_delete_schema", "baasix_list_items",
                 "baasix_generate_report"} -> {"collection"}
    [] name \in {"baasix_create_schema", "baasix_update_schema"} -> {"collection", "schema"}
    [] name = "baasix_add_index" -> {"collection", "indexDefinition"}
    [] name = "baasix_remove_index" -> {"collection", "indexName"}
    [] name = "baasix_create_relationship" -> {"sourceCollection", "relationshipData"}
    [] name = "baasix_update_relationship" -> {"sourceCollection", "fieldName", "updateData"}
    [] name = "baasix_delete_relationship" -> {"sourceCollection", "fieldName"}
    [] name = "baasix_import_schemas" -> {"schemas"}
    [] name \in {"baasix_get_item", "baasix_delete_item"} -> {"collection", "id"}
    [] name = "baasix_create_item" -> {"collection", "data"}
    [] name = "baasix_update_item" -> {"collection", "id", "data"}
    [] name \in {"baasix_get_file_info", "baasix_delete_file",
                 "baasix_mark_notification_seen", "baasix_get_permission",
                 "baasix_update_permission", "baasix_delete_permission"} -> {"id"}
    [] name = "baasix_send_notification" -> {"recipients", "title", "message"}
    [] name = "baasix_update_settings" -> {"settings"}
    [] name = "baasix_get_permissions" -> {"role"}
    [] name = "baasix_create_permission" -> {"role_Id", "collection", "action"}
    [] name = "baasix_update_permissions" -> {"role", "permissions"}
    [] name = "baasix_sort_items" -> {"collection", "item", "to"}
    [] name \in {"baasix_register_user", "baasix_login"} -> {"email", "password"}
    [] name = "baasix_send_invite" -> {"email", "role_Id", "link"}
    [] name = "baasix_verify_invite" -> {"token"}
    [] name = "baasix_send_magic_link" -> {"email"}
    [] name = "baasix_switch_tenant" -> {"tenant_Id"}
    [] OTHER -> {}

\* The invocations the model dispatches: <<name, arguments>>, the arguments
\* absent or a mapping.
SomeArgs == "{collection: products}"
\* A mapping without any key.
EmptyArgs == "{}"

\* The keys of an arguments mapping.
ArgFields(args) == IF args = SomeArgs THEN {"collection"} ELSE {}

DispatchedCalls ==
  { <<"baasix_list_items", SomeArgs>>, <<"baasix_list_items", Undef>>,
    <<"baasix_list_items", EmptyArgs>>, <<"baasix_list_schemas", Undef>>,
    <<"baasix_auth_status", SomeArgs>>, <<"baasix_refresh_auth", SomeArgs>>,
    <<"baasix_server_info", SomeArgs>>, <<"baasix_no_such_tool", SomeArgs>> }

\* ------------------------------------------------------------------ state
VARIABLES
  config,       \* the resolved configuration (BAASIX_* module constants)
  startup,      \* what createConfig made of the configuration, once called
  authToken,    \* let authToken
  authExpiry,   \* let authExpiry
  issuedAt,     \* history: Date.now() when the cache was last written
  now,          \* Date.now(), in milliseconds since process start
  dispatched,   \* history: number of invocations received so far
  inv           \* per slot: the invocation running in it

vars == <<config, startup, authToken, authExpiry, issuedAt, now, dispatched, inv>>

\* inv[p].pc      where the invocation is suspended
\*       .tool    request.params.name
\*       .token   baasixRequest's `token` / `newToken`, the handlers' `token`
\*       .err     baasixRequest's caught `error`, as its extracted message
\*       .log     history: the backend calls issued ("login", "request",
\*                "retry") and the cache invalidations ("clear"), in order
\*       .req     how baasixRequest settled: resolved with data, or rejected
\*       .result  what the dispatcher answers
\*       .logged  whether console.error was called with the tool name
NoResult == [kind |-> "none", code |-> "", msg |-> <<>>, body |-> <<>>]
NoRequest == [kind |-> "none", data |-> Undef, msg |-> <<>>]

IdleSlot ==
  [pc |-> "idle", tool |-> "", token |-> Undef,
   err |-> <<>>, log |-> <<>>, req |-> NoRequest, result |-> NoResult,
   logged |-> FALSE]

\* createConfig has not been called.
NotCalled ==
  [called |-> FALSE, errors |-> <<>>, warnings |-> <<>>, isValid |-> FALSE,
   thrown |-> FALSE, warned |-> <<>>]

\* The server module loads its configuration with loadEnvironmentConfig() and
\* reads the four values from it; it calls neither validateConfig nor
\* createConfig.
Init ==
  /\ config \in { loadEnvironmentConfig(e[1], e[2]) : e \in StartEnvironments }
  /\ startup = NotCalled
  /\ authToken = Null
  /\ authExpiry = NullExpiry
  /\ issuedAt = NullExpiry
  /\ now = 0
  /\ dispatched = 0
  /\ inv = [p \in Slots |-> IdleSlot]

\* --------------------------------------------------------- Auth Manager
NoAuthMethodMsg ==
  <<"No authentication method available. Please provide BAASIX_AUTH_TOKEN or BAASIX_EMAIL/BAASIX_PASSWORD">>

\* Variant: the expiry instant itself still counts as valid (<= for <).
CachedTokenValidInclusive(tok, exp, t) ==
  Truthy(tok) /\ ExpiryTruthy(exp) /\ t <= exp[1]

\* if (authToken && authExpiry && Date.now() < authExpiry)
CachedTokenValid(tok, exp, t) == Truthy(tok) /\ ExpiryTruthy(exp) /\ t < exp[1]

\* Variant: the explicit token is not looked at (priority 1 missing).
getAuthTokenIgnoresExplicit(cfg, tok, exp, t) ==
  IF Truthy(tok) /\ ExpiryTruthy(exp) /\ t < exp[1]
    THEN [kind |-> "return", value |-> tok]
  ELSE IF Truthy(cfg.BAASIX_EMAIL) /\ Truthy(cfg.BAASIX_PASSWORD)
    THEN [kind |-> "login", value |-> Undef]
  ELSE [kind |-> "throw", value |-> Undef]

\* Variant: priority 3 tests BAASIX_EMAIL || BAASIX_PASSWORD.
getAuthTokenEitherCredential(cfg, tok, exp, t) ==
  IF Truthy(cfg.BAASIX_AUTH_TOKEN)
    THEN [kind |-> "return", value |-> cfg.BAASIX_AUTH_TOKEN]
  ELSE IF Truthy(tok) /\ ExpiryTruthy(exp) /\ t < exp[1]
    THEN [kind |-> "return", value |-> tok]
  ELSE IF Truthy(cfg.BAASIX_EMAIL) \/ Truthy(cfg.BAASIX_PASSWORD)
    THEN [kind |-> "login", value |-> Undef]
  ELSE [kind |-> "throw", value |-> Undef]

\* getAuthToken up to its first await: return a value, post the login, or throw.
getAuthToken(cfg, tok, exp, t) ==
  IF Truthy(cfg.BAASIX_AUTH_TOKEN)
    THEN [kind |-> "return", value |-> cfg.BAASIX_AUTH_TOKEN]
  ELSE IF CachedTokenValid(tok, exp, t)
    THEN [kind |-> "return", value |-> tok]
  ELSE IF Truthy(cfg.BAASIX_EMAIL) /\ Truthy(cfg.BAASIX_PASSWORD)
    THEN [kind |-> "login", value |-> Undef]
  ELSE [kind |-> "throw", value |-> Undef]

\* authExpiry = Date.now() + (60 * 60 * 1000)
NewExpiry(t) == <<t + TokenTTL>>

\* Variant: a login answer does not replace a cached token that is still valid.
LoginSucceededKeepsValid(r) ==
  IF Truthy(authToken) /\ ExpiryTruthy(authExpiry) /\ now < authExpiry[1]
    THEN UNCHANGED <<authToken, authExpiry, issuedAt>>
    ELSE /\ authToken' = r.data
         /\ authExpiry' = <<now + TokenTTL>>
         /\ issuedAt' = <<now>>

\* Variant: the login answer writes the token and leaves the expiry alone.
LoginSucceededTokenOnly(r) ==
  /\ authToken' = r.data
  /\ authExpiry' = authExpiry
  /\ issuedAt' = issuedAt

\* Variant: a login answer without a token writes nothing.
LoginSucceededSkipsMissingToken(r) ==
  IF Truthy(r.data)
    THEN /\ authToken' = r.data
         /\ authExpiry' = <<now + TokenTTL>>
         /\ issuedAt' = <<now>>
    ELSE UNCHANGED <<authToken, authExpiry, issuedAt>>

\* getAuthToken after the login answered 2xx: write the cache.
LoginSucceeded(r) ==
  /\ authToken' = r.data
  /\ authExpiry' = NewExpiry(now)
  /\ issuedAt' = <<now>>

\* Variant: only the expiry is reset, the token stays.
ClearCacheKeepsToken ==
  /\ authToken' = authToken
  /\ authExpiry' = NullExpiry
  /\ issuedAt' = NullExpiry

\* authToken = null; authExpiry = null;
ClearCache ==
  /\ authToken' = Null
  /\ authExpiry' = NullExpiry
  /\ issuedAt' = NullExpiry

CacheUnchanged == UNCHANGED <<authToken, authExpiry, issuedAt>>

\* Variant: a failed login empties the cache.
LoginFailedClearsCache ==
  /\ authToken' = Null
  /\ authExpiry' = NullExpiry
  /\ issuedAt' = NullExpiry

\* getAuthToken's catch block (lines 49-51) only throws: the cache is as it was.
LoginFailed == UNCHANGED <<authToken, authExpiry, issuedAt>>

\* Variant: the message is always axios' own, never the response's.
AuthFailedMsgAxios(r) == <<"Authentication failed: ", AxiosMessage(r)>>

\* throw new Error(`Authentication failed: ${...}`)
AuthFailedMsg(r) == <<"Authentication failed: ", UpstreamMessage(r)>>

\* ------------------------------------------------------------ Dispatcher
\* The handler returns or throws: its locals are gone.
Succeed(rec, body) ==
  [rec EXCEPT !.pc = "done", !.token = Undef, !.err = <<>>,
              !.result = [kind |-> "success", code |-> "", msg |-> <<>>, body |-> body]]

McpFail(rec, code, msg, logged) ==
  [rec EXCEPT !.pc = "done", !.token = Undef, !.err = <<>>, !.logged = logged,
              !.result = [kind |-> "error", code |-> code, msg |-> msg, body |-> <<>>]]

\* Variant: the catch block wraps every error as 'Unknown error'.
HandlerThrowUnknownError(rec, m) ==
  McpFail(rec, "InternalError", <<"Tool execution failed: ", "Unknown error">>, TRUE)

\* Variant: the catch block wraps the error without the console.error call.
HandlerThrowSilent(rec, m) ==
  McpFail(rec, "InternalError", <<"Tool execution failed: ">> \o m, FALSE)

\* The catch block: an error that is no McpError is logged and wrapped.
HandlerThrow(rec, m) ==
  McpFail(rec, "InternalError", <<"Tool execution failed: ">> \o m, TRUE)

\* baasixRequest rejected with Error(m) inside the handler.
RequestThrow(rec, m) ==
  LET rejected == [rec EXCEPT !.req = [kind |-> "rejected", data |-> Undef, msg |-> m]]
  IN  IF HandlerOf(rec.tool) = "server_info"
        THEN Succeed(rejected, <<"error", "Could not fetch Baasix server info">>)
        ELSE HandlerThrow(rejected, m)

\* throw new Error(`Baasix API Error: ${...}`)
ApiErrorMsg(m) == <<"Baasix API Error: ">> \o m


\* Variant: no handler has a try/catch of its own around getAuthToken.
AuthThrowUncaught(rec, m) == HandlerThrow(rec, m)

\* getAuthToken rejected with Error(m) where the handler awaited it: the two
\* auth handlers report it in a success payload, baasixRequest lets it through.
AuthThrow(rec, m) ==
  IF HandlerOf(rec.tool) = "auth_status"
    THEN Succeed(rec, <<"error">> \o m)
  ELSE IF HandlerOf(rec.tool) = "refresh_auth"
    THEN Succeed(rec, <<"success: false", "error">> \o m)
  ELSE RequestThrow(rec, m)

JsBool(b) == IF b THEN "true" ELSE "false"

\* handleAuthStatus' status payload, read from the cache (tok, exp) at time t.
StatusPayload(token, tok, exp, t) ==
  << "authenticated: " \o JsBool(Truthy(token)),
     IF ExpiryTruthy(exp) THEN "auto_login_expires: set" ELSE "auto_login_expires: N/A",
     "auto_login_valid: " \o JsBool(CachedTokenValid(tok, exp, t)) >>

\* handleRefreshAuth's result payload.
RefreshPayload(token, exp) ==
  << "success: " \o JsBool(Truthy(token)),
     IF ExpiryTruthy(exp) THEN "expires: set" ELSE "expires: Unknown" >>

\* Variant: the auth handlers build their payload from the cache as it was
\* before getAuthToken's login answer was stored.
ContinueWithTokenStaleCache(rec, token, tok, exp, t) ==
  IF HandlerOf(rec.tool) = "auth_status"
    THEN Succeed(rec, StatusPayload(token, authToken, authExpiry, t))
  ELSE IF HandlerOf(rec.tool) = "refresh_auth"
    THEN Succeed(rec, RefreshPayload(token, authExpiry))
  ELSE [rec EXCEPT !.pc = "request", !.token = token, !.log = Append(@, "request")]

\* `await getAuthToken()` resolved with `token` while the cache holds
\* (tok, exp): baasixRequest sends the request (line 73, the bearer header
\* attached when the token is truthy), the auth handlers build their payload.
ContinueWithToken(rec, token, tok, exp, t) ==
  IF HandlerOf(rec.tool) = "auth_status"
    THEN Succeed(rec, StatusPayload(token, tok, exp, t))
  ELSE IF HandlerOf(rec.tool) = "refresh_auth"
    THEN Succeed(rec, RefreshPayload(token, exp))
  ELSE [rec EXCEPT !.pc = "request", !.token = token, !.log = Append(@, "request")]

\* The handler calls getAuthToken (directly, or first thing in baasixRequest)
\* with the cache holding (tok, exp).  When getAuthToken returns without a
\* backend call, the caller's continuation is a microtask: handlers of other
\* invocations received in the same chunk run before it.
CallGetAuthToken(rec, tok, exp) ==
  LET g == getAuthToken(config, tok, exp, now)
  IN  IF g.kind = "return"
        THEN [rec EXCEPT !.pc = "haveToken", !.token = g.value]
      ELSE IF g.kind = "login"
        THEN [rec EXCEPT !.pc = "login", !.log = Append(@, "login")]
      ELSE AuthThrow(rec, NoAuthMethodMsg)

\* Variant: the manual-token check of handleRefreshAuth is missing.
RefreshIsNoopNever(cfg) == FALSE

\* handleRefreshAuth: if (BAASIX_AUTH_TOKEN) return the "no refresh needed" payload.
RefreshIsNoop(cfg) == Truthy(cfg.BAASIX_AUTH_TOKEN)

\* Variant: the switch lacks the case of the last utility tool.
IsKnownToolMissingCase(name) == name \in SwitchCases \ {"baasix_sort_items"}

\* Variant: the switch has no default branch; every name reaches a handler.
IsKnownToolAlways(name) == TRUE

\* The switch has a case for the name (otherwise: the default branch).
IsKnownTool(name) == name \in SwitchCases

\* The answer of a settled handler is written to the transport in the turn in
\* which it settles, before any other callback runs: nothing else happens
\* while a slot still holds an answer.
AnswersWritten == \A q \in Slots : inv[q].pc # "done"

\* Variant: a request is taken up only when no other invocation is running.
FreeSlotWhenAllIdle(p) ==
  /\ p = 1
  /\ \A q \in Slots : inv[q].pc = "idle"

\* Every incoming request gets a handler call of its own, whatever the
\* earlier ones are suspended on; it runs in the first free slot.
FreeSlot(p) ==
  /\ inv[p].pc = "idle"
  /\ \A q \in Slots : q < p => inv[q].pc # "idle"

\* A tool invocation arrives: the switch, and the handler up to its first
\* await.  The handler destructures `args` on entry and keeps no reference to
\* it; no check of `args` against the descriptor's inputSchema is made.
Dispatch(p, name, args) ==
  LET rec == [IdleSlot EXCEPT !.tool = name]
  IN
  /\ FreeSlot(p)
  /\ AnswersWritten
  /\ dispatched < MaxDispatches
  /\ dispatched' = dispatched + 1
  /\ UNCHANGED <<config, startup, now>>
  /\ IF ~IsKnownTool(name)
       THEN /\ inv' = [inv EXCEPT ![p] =
                         McpFail(rec, "MethodNotFound", <<"Unknown tool: ", name>>, FALSE)]
            /\ CacheUnchanged
     ELSE IF HandlerOf(name) = "reads_args" /\ args = Undef
       THEN /\ inv' = [inv EXCEPT ![p] =
                         HandlerThrow(rec, <<"Cannot destructure property of undefined">>)]
            /\ CacheUnchanged
     ELSE IF HandlerOf(name) = "refresh_auth"
       THEN IF RefreshIsNoop(config)
              THEN /\ inv' = [inv EXCEPT ![p] = Succeed(rec,
                                <<"Using manual token (BAASIX_AUTH_TOKEN), no refresh needed">>)]
                   /\ CacheUnchanged
              ELSE /\ ClearCache
                   /\ inv' = [inv EXCEPT ![p] =
                                CallGetAuthToken([rec EXCEPT !.log = <<"clear">>],
                                                 Null, NullExpiry)]
     ELSE /\ inv' = [inv EXCEPT ![p] = CallGetAuthToken(rec, authToken, authExpiry)]
          /\ CacheUnchanged

\* The continuation of an `await getAuthToken()` that made no backend call.
Resume(p) ==
  /\ inv[p].pc = "haveToken"
  /\ AnswersWritten
  /\ inv' = [inv EXCEPT ![p] =
               ContinueWithToken(@, @.token, authToken, authExpiry, now)]
  /\ UNCHANGED <<config, startup, now, dispatched>>
  /\ CacheUnchanged

\* The login posted by the handler's first getAuthToken call is answered; on
\* success the cache is written and the caller continues in the same turn.
LoginResponse(p, r) ==
  /\ inv[p].pc = "login"
  /\ AnswersWritten
  /\ UNCHANGED <<config, startup, now, dispatched>>
  /\ IF r.kind = "ok"
       THEN /\ LoginSucceeded(r)
            /\ inv' = [inv EXCEPT ![p] =
                         ContinueWithToken(@, r.data, r.data, NewExpiry(now), now)]
       ELSE /\ LoginFailed
            /\ inv' = [inv EXCEPT ![p] = AuthThrow(@, AuthFailedMsg(r))]

\* return response.data, wrapped by the handler.
RequestSucceeded(rec, r) ==
  LET resolved == [rec EXCEPT !.req = [kind |-> "resolved", data |-> r.data, msg |-> <<>>]]
  IN  IF HandlerOf(rec.tool) = "server_info"
        THEN Succeed(resolved, <<"baasix_server", r.data>>)
        ELSE Succeed(resolved, <<r.data>>)

\* Variant: any 401 is retried, whatever the mode and the cache.
ShouldRetryOn401Only(r, tok, cfg) == r.kind = "http" /\ r.status = 401

\* Variant: every failure is retried, not only a 401.
ShouldRetryAnyError(r, tok, cfg) ==
  r.kind # "ok" /\ Truthy(tok) /\ ~Truthy(cfg.BAASIX_AUTH_TOKEN)

\* if (error.response?.status === 401 && authToken && !BAASIX_AUTH_TOKEN)
ShouldRetry(r, tok, cfg) ==
  /\ r.kind = "http"
  /\ r.status = 401
  /\ Truthy(tok)
  /\ ~Truthy(cfg.BAASIX_AUTH_TOKEN)

\* Variant: the retry goes out with the token of the original request.
RetryWithOldToken(rec, newToken) ==
  IF Truthy(newToken)
    THEN [rec EXCEPT !.pc = "retry", !.err = <<>>, !.log = Append(@, "retry")]
    ELSE RequestThrow(rec, ApiErrorMsg(rec.err))

\* Lines 83-87: if (newToken) send the retry with it; otherwise fall through
\* to line 93, which throws the original error.
RetryWith(rec, newToken) ==
  IF Truthy(newToken)
    THEN [rec EXCEPT !.pc = "retry", !.token = newToken, !.err = <<>>,
                     !.log = Append(@, "retry")]
    ELSE RequestThrow(rec, ApiErrorMsg(rec.err))

\* Variant: the retry is sent at once with the old token, without a new login.
BeginRetryWithoutLogin(rec, r) ==
  [rec EXCEPT !.pc = "retry", !.log = @ \o <<"clear", "retry">>]

\* Variant: getAuthToken is called before the cache is cleared.
BeginRetryUsesCache(rec, r) ==
  LET g == getAuthToken(config, authToken, authExpiry, now)
      cleared == [rec EXCEPT !.log = Append(@, "clear"), !.err = <<UpstreamMessage(r)>>]
  IN  IF g.kind = "login"
        THEN [cleared EXCEPT !.pc = "relogin", !.log = Append(@, "login")]
      ELSE IF g.kind = "return"
        THEN RetryWith(cleared, g.value)
      ELSE RequestThrow(cleared, ApiErrorMsg(NoAuthMethodMsg))

\* Lines 78-82: the cache has been cleared; call getAuthToken again.
BeginRetry(rec, r) ==
  LET g == getAuthToken(config, Null, NullExpiry, now)
      cleared == [rec EXCEPT !.log = Append(@, "clear"), !.err = <<UpstreamMessage(r)>>]
  IN  IF g.kind = "login"
        THEN [cleared EXCEPT !.pc = "relogin", !.log = Append(@, "login")]
      ELSE IF g.kind = "return"
        THEN RetryWith(cleared, g.value)
      ELSE RequestThrow(cleared, ApiErrorMsg(NoAuthMethodMsg))

\* Variant: a successful baasix_logout also empties the token cache.
ApiResponseLogoutClears(p, r) ==
  /\ inv[p].pc = "request"
  /\ AnswersWritten
  /\ UNCHANGED <<config, startup, now, dispatched>>
  /\ IF r.kind = "ok"
       THEN /\ inv' = [inv EXCEPT ![p] = RequestSucceeded(@, r)]
            /\ IF inv[p].tool = "baasix_logout" THEN ClearCache ELSE CacheUnchanged
     ELSE IF ShouldRetry(r, authToken, config)
       THEN /\ ClearCache
            /\ inv' = [inv EXCEPT ![p] = BeginRetry(@, r)]
     ELSE /\ inv' = [inv EXCEPT ![p] = RequestThrow(@, ApiErrorMsg(<<UpstreamMessage(r)>>))]
          /\ CacheUnchanged

\* Variant: the 401 branch clears the cache only when it still holds the
\* token the request carried; otherwise it retries with the cached token.
ApiResponseClearsOwnToken(p, r) ==
  /\ inv[p].pc = "request"
  /\ AnswersWritten
  /\ UNCHANGED <<config, startup, now, dispatched>>
  /\ IF r.kind = "ok"
       THEN /\ inv' = [inv EXCEPT ![p] = RequestSucceeded(@, r)]
            /\ CacheUnchanged
     ELSE IF ShouldRetry(r, authToken, config) /\ authToken = inv[p].token
       THEN /\ ClearCache
            /\ inv' = [inv EXCEPT ![p] = BeginRetry(@, r)]
     ELSE IF ShouldRetry(r, authToken, config)
       THEN /\ CacheUnchanged
            /\ inv' = [inv EXCEPT ![p] =
                         RetryWith([@ EXCEPT !.err = <<UpstreamMessage(r)>>], authToken)]
     ELSE /\ inv' = [inv EXCEPT ![p] = RequestThrow(@, ApiErrorMsg(<<UpstreamMessage(r)>>))]
          /\ CacheUnchanged

\* The original request is answered.
ApiResponse(p, r) ==
  /\ inv[p].pc = "request"
  /\ AnswersWritten
  /\ UNCHANGED <<config, startup, now, dispatched>>
  /\ IF r.kind = "ok"
       THEN /\ inv' = [inv EXCEPT ![p] = RequestSucceeded(@, r)]
            /\ CacheUnchanged
     ELSE IF ShouldRetry(r, authToken, config)
       THEN /\ ClearCache
            /\ inv' = [inv EXCEPT ![p] = BeginRetry(@, r)]
     ELSE /\ inv' = [inv EXCEPT ![p] = RequestThrow(@, ApiErrorMsg(<<UpstreamMessage(r)>>))]
          /\ CacheUnchanged

\* The login posted by the retry path (line 82) is answered.
ReloginResponse(p, r) ==
  /\ inv[p].pc = "relogin"
  /\ AnswersWritten
  /\ UNCHANGED <<config, startup, now, dispatched>>
  /\ IF r.kind = "ok"
       THEN /\ LoginSucceeded(r)
            /\ inv' = [inv EXCEPT ![p] = RetryWith(@, r.data)]
       ELSE /\ LoginFailed
            /\ inv' = [inv EXCEPT ![p] = RequestThrow(@, ApiErrorMsg(AuthFailedMsg(r)))]

\* Variant: a 401 on the retry is retried again.
RetryOutcomeRetriesAgain(rec, r) ==
  IF r.kind = "ok"
    THEN RequestSucceeded(rec, r)
  ELSE IF r.kind = "http" /\ r.status = 401
    THEN [rec EXCEPT !.log = Append(@, "retry")]
  ELSE RequestThrow(rec, ApiErrorMsg(<<UpstreamMessage(r)>>))

\* Variant: the retry's failure surfaces error.message, not the response's message.
RetryOutcomeAxiosMessage(rec, r) ==
  IF r.kind = "ok"
    THEN RequestSucceeded(rec, r)
    ELSE RequestThrow(rec, ApiErrorMsg(<<AxiosMessage(r)>>))

\* Variant: a 401 on the retry sends the original request again.
RetryOutcomeBackToRequest(rec, r) ==
  IF r.kind = "ok"
    THEN RequestSucceeded(rec, r)
  ELSE IF r.kind = "http" /\ r.status = 401
    THEN [rec EXCEPT !.pc = "request"]
  ELSE RequestThrow(rec, ApiErrorMsg(<<UpstreamMessage(r)>>))

\* What the answer to the retry makes of the invocation (lines 86-90).
RetryOutcome(rec, r) ==
  IF r.kind = "ok"
    THEN RequestSucceeded(rec, r)
    ELSE RequestThrow(rec, ApiErrorMsg(<<UpstreamMessage(r)>>))

\* The retry is answered.
RetryResponse(p, r) ==
  /\ inv[p].pc = "retry"
  /\ AnswersWritten
  /\ inv' = [inv EXCEPT ![p] = RetryOutcome(@, r)]
  /\ UNCHANGED <<config, startup, now, dispatched>>
  /\ CacheUnchanged

\* The dispatcher's answer is written to the transport when the handler
\* settles; the slot is free again.
Collect(p) ==
  /\ inv[p].pc = "done"
  /\ inv' = [inv EXCEPT ![p] = IdleSlot]
  /\ UNCHANGED <<config, startup, now, dispatched>>
  /\ CacheUnchanged

\* Time passes (not while a microtask continuation is pending).
Tick ==
  /\ now < MaxTicks * TimeStep
  /\ AnswersWritten
  /\ \A p \in Slots : inv[p].pc # "haveToken"
  /\ now' = now + TimeStep
  /\ UNCHANGED <<config, startup, dispatched, inv>>
  /\ CacheUnchanged

Next ==
  \/ \E p \in Slots, c \in DispatchedCalls : Dispatch(p, c[1], c[2])
  \/ \E p \in Slots : Resume(p)
  \/ \E p \in Slots, r \in LoginResponses : LoginResponse(p, r)
  \/ \E p \in Slots, r \in ApiResponses : ApiResponse(p, r)
  \/ \E p \in Slots, r \in LoginResponses : ReloginResponse(p, r)
  \/ \E p \in Slots, r \in ApiResponses : RetryResponse(p, r)
  \/ \E p \in Slots : Collect(p)
  \/ Tick

Spec == Init /\ [][Next]_vars

\* The next step of the invocation in slot p: a pending continuation runs,
\* the backend call it waits for is answered, or its answer is written out.
Progress(p) ==
  \/ Resume(p)
  \/ \E r \in LoginResponses : LoginResponse(p, r)
  \/ \E r \in ApiResponses : ApiResponse(p, r)
  \/ \E r \in LoginResponses : ReloginResponse(p, r)
  \/ \E r \in ApiResponses : RetryResponse(p, r)
  \/ Collect(p)

\* Every outbound backend call is eventually answered, with a response or an
\* error, and the event loop runs every continuation that is ready.
SpecFair == Init /\ [][Next]_vars /\ \A p \in Slots : WF_vars(Progress(p))

\* ------------------------------------------------- the session tools
\* handleLogin posts the caller's credentials to /auth/login and
\* handleLogout calls /auth/logout, both through baasixRequest; a client
\* uses them next to an ordinary tool.
SessionCalls ==
  { <<"baasix_login", SomeArgs>>, <<"baasix_logout", Undef>>,
    <<"baasix_list_items", SomeArgs>> }

SessionNext ==
  \/ \E p \in Slots, c \in SessionCalls : Dispatch(p, c[1], c[2])
  \/ \E p \in Slots : Resume(p)
  \/ \E p \in Slots, r \in LoginResponses : LoginResponse(p, r)
  \/ \E p \in Slots, r \in ApiResponses : ApiResponse(p, r)
  \/ \E p \in Slots, r \in LoginResponses : ReloginResponse(p, r)
  \/ \E p \in Slots, r \in ApiResponses : RetryResponse(p, r)
  \/ \E p \in Slots : Collect(p)
  \/ Tick

SpecSession == Init /\ [][SessionNext]_vars

\* ------------------------------------------------- the tool catalog
\* The names a client may ask for: advertised, documented, or neither.
CatalogNames == SwitchCases \cup ReadmeRealtimeTools \cup {"baasix_no_such_tool"}

\* The ListToolsRequestSchema handler: returns the array literal of descriptors.
ListTools(p) ==
  /\ inv[p].pc = "idle"
  /\ AnswersWritten
  /\ inv' = [inv EXCEPT ![p] = Succeed([IdleSlot EXCEPT !.tool = "tools/list"], ListedTools)]
  /\ UNCHANGED <<config, startup, now, dispatched>>
  /\ CacheUnchanged

\* Clients list the tools and call any name; the backend does not answer.
CatalogNext ==
  \/ \E p \in Slots : ListTools(p)
  \/ \E p \in Slots, name \in CatalogNames : Dispatch(p, name, SomeArgs)
  \/ \E p \in Slots : Collect(p)

SpecCatalog == Init /\ [][CatalogNext]_vars

\* ------------------------------------------- the configuration utility
\* What the callers of createConfig may pass and find: the process
\* environment, the parsed .env file and the two options.
ConfigEnvs ==
  [BAASIX_URL : {Undef, "https://api.example.com", "not a url"},
   BAASIX_AUTH_TOKEN : {Undef, "explicit-token"},
   BAASIX_EMAIL : {Undef, "", "a@b.com"},
   BAASIX_PASSWORD : {Undef, "x"}]

ConfigDotEnvs ==
  [BAASIX_URL : {Undef, "http://localhost:9000"},
   BAASIX_AUTH_TOKEN : {Undef, ""},
   BAASIX_EMAIL : {Undef, ""},
   BAASIX_PASSWORD : {Undef, ""}]

\* Nothing is loaded yet.
ConfigInit ==
  /\ config = EmptyConfig
  /\ startup = NotCalled
  /\ authToken = Null
  /\ authExpiry = NullExpiry
  /\ issuedAt = NullExpiry
  /\ now = 0
  /\ dispatched = 0
  /\ inv = [p \in Slots |-> IdleSlot]

\* A call of createConfig(options).
CreateConfig(penv, dotenv, useDefaults, processEnv) ==
  LET c == createConfig(penv, dotenv, useDefaults, processEnv)
  IN  /\ ~startup.called
      /\ config' = c.config
      /\ startup' = [called |-> TRUE, errors |-> c.errors, warnings |-> c.warnings,
                     isValid |-> c.isValid, thrown |-> c.thrown, warned |-> c.warned]
      /\ UNCHANGED <<authToken, authExpiry, issuedAt, now, dispatched, inv>>

ConfigNext ==
  \E penv \in ConfigEnvs, dotenv \in ConfigDotEnvs, useDefaults, processEnv \in BOOLEAN :
    CreateConfig(penv, dotenv, useDefaults, processEnv)

SpecConfig == ConfigInit /\ [][ConfigNext]_vars


\* ============================================================= properties
ExplicitMode == Truthy(config.BAASIX_AUTH_TOKEN)
EmailMode ==
  ~ExplicitMode /\ Truthy(config.BAASIX_EMAIL) /\ Truthy(config.BAASIX_PASSWORD)

\* Number of occurrences of event e in a log.
Count(log, e) == Cardinality({i \in DOMAIN log : log[i] = e})

\* The handler awaits baasixRequest without a try/catch of its own.
Propagates(name) == HandlerOf(name) \in {"reads_args", "no_args"}

ErrorResult(code, msg) == [kind |-> "error", code |-> code, msg |-> msg, body |-> <<>>]
SuccessResult(body) == [kind |-> "success", code |-> "", msg |-> <<>>, body |-> body]
Rejected(msg) == [kind |-> "rejected", data |-> Undef, msg |-> msg]
Resolved(data) == [kind |-> "resolved", data |-> data, msg |-> <<>>]

\* The validity window the specification states: 3600 s, in milliseconds.
SpecWindow == 3600 * 1000

\* C1: in explicit-token mode, in every reachable state (whatever tools were
\* invoked, whatever the backend answered, however much time passed) the
\* cached token and expiry are empty, no login exchange was issued or is in
\* flight, and every token getAuthToken handed out is the explicit token.
C1_ExplicitTokenAlwaysWins ==
  ExplicitMode =>
    /\ authToken = Null
    /\ authExpiry = NullExpiry
    /\ \A p \in Slots :
         /\ inv[p].pc \notin {"login", "relogin"}
         /\ Count(inv[p].log, "login") = 0
         /\ inv[p].pc \in {"haveToken", "request", "retry"}
              => inv[p].token = config.BAASIX_AUTH_TOKEN

\* An explicit-token request is in flight a full validity window after process
\* start, after another invocation's request was rejected with a 401.
C1_Witness ==
  /\ ExplicitMode
  /\ now >= SpecWindow
  /\ \E p, q \in Slots :
       /\ inv[p].pc = "request"
       /\ inv[p].token = config.BAASIX_AUTH_TOKEN
       /\ inv[q].pc = "done"
       /\ inv[q].req = Rejected(<<"Baasix API Error: ", "m1">>)

\* C2: in explicit-token mode a dispatch of baasix_refresh_auth ends at once
\* in a success result, issues no backend call, leaves the cache as it was,
\* and getAuthToken answers the same before and after it.
C2_RefreshIsNoopInExplicitMode ==
  [][\A p \in Slots :
       (ExplicitMode /\ Dispatch(p, "baasix_refresh_auth", SomeArgs)) =>
         /\ inv'[p].pc = "done"
         /\ inv'[p].result.kind = "success"
         /\ inv'[p].log = <<>>
         /\ authToken' = authToken
         /\ authExpiry' = authExpiry
         /\ getAuthToken(config', authToken', authExpiry', now')
              = getAuthToken(config, authToken, authExpiry, now)
         /\ getAuthToken(config, authToken, authExpiry, now)
              = [kind |-> "return", value |-> config.BAASIX_AUTH_TOKEN]]_vars

\* A refresh was answered in explicit-token mode while a request is in flight.
C2_Witness ==
  /\ ExplicitMode
  /\ \E p, q \in Slots :
       /\ inv[p].tool = "baasix_refresh_auth"
       /\ inv[p].pc = "done"
       /\ inv[p].result.kind = "success"
       /\ inv[q].pc = "request"

\* C3: in email/password mode, a getAuthToken call made while the cache holds
\* a token written at time T (not invalidated since) returns that token
\* without a login exchange when now - T < 3600 s, and posts a login when
\* now - T >= 3600 s; the successful login writes the cache: the token of the
\* response, expiring 3600 s after it.
C3_TokenReusedWithinWindow ==
  [][/\ \A p \in Slots, c \in DispatchedCalls :
          ( /\ Dispatch(p, c[1], c[2])
            /\ EmailMode
            /\ c[1] \in {"baasix_list_items", "baasix_server_info", "baasix_auth_status"}
            /\ c[2] # Undef
            /\ Truthy(authToken)
            /\ Len(issuedAt) = 1 ) =>
          IF now - issuedAt[1] < SpecWindow
            THEN /\ inv'[p].pc = "haveToken"
                 /\ inv'[p].token = authToken
                 /\ inv'[p].log = <<>>
                 /\ authToken' = authToken
                 /\ authExpiry' = authExpiry
            ELSE /\ inv'[p].pc = "login"
                 /\ inv'[p].log = <<"login">>
     /\ \A p \in Slots, r \in LoginOk :
          (EmailMode /\ LoginResponse(p, r)) =>
            /\ authToken' = r.data
            /\ authExpiry' = <<now + SpecWindow>>
            /\ issuedAt' = <<now>>
    ]_vars

\* A call made exactly 3600 s after the token was cached posts a fresh login.
C3_Witness ==
  /\ EmailMode
  /\ Truthy(authToken)
  /\ Len(issuedAt) = 1
  /\ now - issuedAt[1] = SpecWindow
  /\ \E p \in Slots : inv[p].pc = "login" /\ inv[p].log = <<"login">>

\* C4: an invocation's request goes to the backend at most twice, the
\* original and at most one retry, and nothing follows the retry: once it is
\* answered the invocation is over, whatever the answer.
C4_AtMostOneRetry ==
  \A p \in Slots :
    /\ Count(inv[p].log, "request") <= 1
    /\ Count(inv[p].log, "retry") <= 1
    /\ Count(inv[p].log, "retry") = 1 =>
         /\ inv[p].log[Len(inv[p].log)] = "retry"
         /\ Count(inv[p].log, "request") = 1
         /\ inv[p].pc \in {"retry", "done"}

\* The retry was answered 401 too, and the invocation ended in an error.
C4_Witness ==
  \E p \in Slots :
    /\ inv[p].pc = "done"
    /\ Count(inv[p].log, "retry") = 1
    /\ inv[p].req = Rejected(<<"Baasix API Error: ", "m2">>)
    /\ inv[p].result.kind = "error"


\* The last n events of a log (the whole log when it is shorter).
LastEvents(log, n) ==
  IF Len(log) <= n THEN log ELSE SubSeq(log, Len(log) - n + 1, Len(log))

\* C5: in email/password mode, a 401 answer to the original request while the
\* cache holds a token clears the cached token and expiry and posts one login
\* exchange; when that login returns a token, exactly one retry goes out,
\* carrying the new token, which is also the cached one; and when the retry is
\* accepted, the request resolves with the retry's response body and the
\* invocation succeeds with it.  The events happen in the order request,
\* clear, login, retry.
C5_RefreshAndRetryOn401 ==
  [][/\ \A p \in Slots, r \in Unauthorized :
          (EmailMode /\ Truthy(authToken) /\ ApiResponse(p, r)) =>
            /\ authToken' = Null
            /\ authExpiry' = NullExpiry
            /\ inv'[p].pc = "relogin"
            /\ inv'[p].log = inv[p].log \o <<"clear", "login">>
     /\ \A p \in Slots, l \in LoginOk :
          (EmailMode /\ Truthy(l.data) /\ ReloginResponse(p, l)) =>
            /\ inv'[p].pc = "retry"
            /\ inv'[p].token = l.data
            /\ authToken' = l.data
            /\ LastEvents(inv'[p].log, 4) = <<"request", "clear", "login", "retry">>
            /\ Count(inv'[p].log, "retry") = 1
     /\ \A p \in Slots, r \in OkResponses :
          (EmailMode /\ RetryResponse(p, r)) =>
            /\ inv'[p].pc = "done"
            /\ inv'[p].req = Resolved(r.data)
            /\ inv'[p].log = inv[p].log
            /\ Propagates(inv[p].tool) => inv'[p].result = SuccessResult(<<r.data>>)
    ]_vars

\* The only invocation so far was answered 401, refreshed, retried with the
\* new token and succeeded with the retry's body.
C5_Witness ==
  /\ EmailMode
  /\ dispatched = 1
  /\ inv[1].pc = "done"
  /\ inv[1].log = <<"login", "request", "clear", "login", "retry">>
  /\ inv[1].result = SuccessResult(<<"b2">>)
  /\ authToken = "tokB"

C7_Scenario ==
  /\ config.BAASIX_EMAIL = "a@b.com"
  /\ config.BAASIX_PASSWORD = "x"
  /\ ~ExplicitMode
  /\ dispatched = 1
  /\ inv[1].tool = "baasix_list_items"

\* C7 as stated: when the second items request of the scenario is answered
\* 200, the result is success after exactly two items requests and exactly
\* one login exchange in total.
C7_OneLoginInTotal ==
  [][\A r \in OkResponses :
       (C7_Scenario /\ RetryResponse(1, r)) =>
         /\ inv'[1].result = SuccessResult(<<r.data>>)
         /\ Count(inv'[1].log, "request") + Count(inv'[1].log, "retry") = 2
         /\ Count(inv'[1].log, "login") = 1
    ]_vars

\* C7 amended: when the second items request of the scenario is answered 200,
\* the result is success after exactly two items requests (original and
\* retry) and exactly two login exchanges: one to obtain the first token, one
\* after the 401.
C7_TwoLoginsInTotal ==
  [][\A r \in OkResponses :
       (C7_Scenario /\ RetryResponse(1, r)) =>
         /\ inv'[1].result = SuccessResult(<<r.data>>)
         /\ Count(inv'[1].log, "request") + Count(inv'[1].log, "retry") = 2
         /\ Count(inv'[1].log, "login") = 2
         /\ inv'[1].log = <<"login", "request", "clear", "login", "retry">>
    ]_vars

\* The scenario has run to its end: 401, then 200, and a success result.
C7_Witness ==
  /\ C7_Scenario
  /\ inv[1].pc = "done"
  /\ inv[1].result.kind = "success"
  /\ Count(inv[1].log, "retry") = 1

C10_UnknownToolIsMethodNotFound ==
  [][\A p \in Slots, c \in DispatchedCalls :
       (c[1] \notin SwitchCases /\ Dispatch(p, c[1], c[2])) =>
         /\ inv'[p].pc = "done"
         /\ inv'[p].result = ErrorResult("MethodNotFound", <<"Unknown tool: ", c[1]>>)
         /\ inv'[p].log = <<>>
         /\ inv'[p].token = Undef
         /\ inv'[p].req = NoRequest
         /\ authToken' = authToken
         /\ authExpiry' = authExpiry
    ]_vars

\* An unknown tool was refused while a token is cached.
C10_Witness ==
  /\ Truthy(authToken)
  /\ \E p \in Slots :
       /\ inv[p].pc = "done"
       /\ inv[p].tool \notin SwitchCases
       /\ inv[p].result.code = "MethodNotFound"

\* C11 as stated: dispatching a known tool with arguments that lack a field
\* its input schema lists as required ends at once in an InvalidParams error:
\* no handler step, no login and no request.
C11_MissingRequiredIsInvalidParams ==
  [][\A p \in Slots, c \in DispatchedCalls :
       ( /\ IsKnownTool(c[1])
         /\ ~(RequiredFields(c[1]) \subseteq ArgFields(c[2]))
         /\ Dispatch(p, c[1], c[2]) ) =>
         /\ inv'[p].pc = "done"
         /\ inv'[p].result.kind = "error"
         /\ inv'[p].result.code = "InvalidParams"
         /\ inv'[p].log = <<>>
         /\ inv'[p].req = NoRequest
    ]_vars

\* C12: every finished invocation carries a success envelope or an error with
\* a code in {MethodNotFound, InvalidParams, InternalError}; when the handler
\* threw (its request was rejected with an API or authentication error, or it
\* failed on its arguments before any request), the answer is an InternalError
\* whose message is 'Tool execution failed: ' followed by the message of the
\* error thrown; when the request resolved, the answer is a success.
C12_UniformOutcome ==
  \A p \in Slots :
    inv[p].pc = "done" =>
      /\ inv[p].result.kind \in {"success", "error"}
      /\ inv[p].result.kind = "error" =>
           inv[p].result.code \in {"MethodNotFound", "InvalidParams", "InternalError"}
      /\ (Propagates(inv[p].tool) /\ IsKnownTool(inv[p].tool)) =>
           CASE inv[p].req.kind = "rejected" ->
                  inv[p].result = ErrorResult("InternalError",
                                    <<"Tool execution failed: ">> \o inv[p].req.msg)
             [] inv[p].req.kind = "resolved" ->
                  inv[p].result = SuccessResult(<<inv[p].req.data>>)
             [] OTHER ->
                  inv[p].result = ErrorResult("InternalError",
                    <<"Tool execution failed: ", "Cannot destructure property of undefined">>)

\* A list-items invocation whose login was refused with message m1 ended in
\* an InternalError carrying the authentication error's message.
C12_Witness ==
  \E p \in Slots :
    /\ inv[p].pc = "done"
    /\ inv[p].tool = "baasix_list_items"
    /\ inv[p].log = <<"login">>
    /\ inv[p].result = ErrorResult("InternalError",
         <<"Tool execution failed: ", "Authentication failed: ", "m1">>)

\* C13 as stated: every invocation that ended in a failure response, the
\* unknown-tool failure included, was logged with its tool name.
C13_EveryFailureLogged ==
  \A p \in Slots :
    (inv[p].pc = "done" /\ inv[p].result.kind = "error") => inv[p].logged

\* C13 amended: every invocation that ended in an InternalError response was
\* logged with its tool name; the unknown-tool failure (MethodNotFound) is
\* answered without a log entry.
C13_InternalErrorsLogged ==
  \A p \in Slots :
    (inv[p].pc = "done" /\ inv[p].result.kind = "error") =>
      /\ inv[p].result.code = "InternalError" => inv[p].logged
      /\ inv[p].result.code = "MethodNotFound" => ~inv[p].logged
      /\ inv[p].result.code \in {"InternalError", "MethodNotFound"}

\* A request rejected on a 500 ended in a logged InternalError.
C13_Witness ==
  \E p \in Slots :
    /\ inv[p].pc = "done"
    /\ inv[p].result.code = "InternalError"
    /\ inv[p].req = Rejected(<<"Baasix API Error: ", "Request failed with status code 500">>)
    /\ inv[p].logged

\* The handler calls baasixRequest (every handler but the two auth handlers).
CallsBackend(name) ==
  IsKnownTool(name) /\ HandlerOf(name) \in {"reads_args", "no_args", "server_info"}

\* The scenario of C14: the environment sets BAASIX_URL and nothing else, and
\* there is no .env file.
C14_Scenario == config = loadEnvironmentConfig(EnvUrlOnly, EmptyConfig)

\* C14 as stated: with only BAASIX_URL configured, invoking a tool that calls
\* the backend ends at once in the 'no authentication method available'
\* error: no login exchange and no request.
C14_UrlOnlyYieldsAuthError ==
  [][\A p \in Slots, c \in DispatchedCalls :
       ( /\ C14_Scenario
         /\ CallsBackend(c[1])
         /\ c[2] # Undef
         /\ Dispatch(p, c[1], c[2]) ) =>
         /\ inv'[p].pc = "done"
         /\ inv'[p].log = <<>>
         /\ inv'[p].req = Rejected(NoAuthMethodMsg)
    ]_vars

\* C15: when the resolved configuration has no explicit token, the cache
\* holds no unexpired token, and email or password is absent, an invocation
\* that calls getAuthToken ends at once: getAuthToken throws the 'no
\* authentication method available' error, no login is posted, the cache is
\* left as it was and no request goes out; the request is rejected with that
\* error, which handlers without a try/catch surface as an InternalError and
\* baasix_auth_status reports in its payload.
C15_NoMethodAvailable ==
  [][\A p \in Slots, c \in DispatchedCalls :
       ( /\ ~Truthy(config.BAASIX_AUTH_TOKEN)
         /\ ~(Truthy(authToken) /\ ExpiryTruthy(authExpiry) /\ now < authExpiry[1])
         /\ ~(Truthy(config.BAASIX_EMAIL) /\ Truthy(config.BAASIX_PASSWORD))
         /\ IsKnownTool(c[1])
         /\ c[2] # Undef
         /\ Dispatch(p, c[1], c[2]) ) =>
         /\ inv'[p].pc = "done"
         /\ Count(inv'[p].log, "login") = 0
         /\ Count(inv'[p].log, "request") = 0
         /\ authToken' = authToken
         /\ authExpiry' = authExpiry
         /\ \A q \in Slots : inv'[q].pc \notin {"login", "relogin", "request", "retry"}
         /\ CallsBackend(c[1]) => inv'[p].req = Rejected(NoAuthMethodMsg)
         /\ Propagates(c[1]) =>
              inv'[p].result = ErrorResult("InternalError",
                                 <<"Tool execution failed: ">> \o NoAuthMethodMsg)
         /\ c[1] = "baasix_auth_status" =>
              inv'[p].result = SuccessResult(<<"error">> \o NoAuthMethodMsg)
    ]_vars

\* With the default email blanked by the .env file (the default password
\* still there), a list-items invocation failed for want of an
\* authentication method.
C15_Witness ==
  /\ config.BAASIX_EMAIL = ""
  /\ Truthy(config.BAASIX_PASSWORD)
  /\ ~ExplicitMode
  /\ \E p \in Slots :
       /\ inv[p].pc = "done"
       /\ inv[p].tool = "baasix_list_items"
       /\ inv[p].req = Rejected(NoAuthMethodMsg)
       /\ inv[p].log = <<>>

\* C16 as stated: a server whose configuration validateConfig rejects never
\* serves a tool invocation.
C16_InvalidConfigNeverServes ==
  ~validateConfig(config).isValid =>
    /\ dispatched = 0
    /\ \A p \in Slots : inv[p].pc = "idle"

\* C17: after createConfig ran on a configuration, validateConfig's isValid is
\* true exactly when BAASIX_URL is present and parses as a URL and a token or
\* both email and password are present; a token together with email and
\* password raises no error, only the 'token will take priority' warning;
\* and createConfig threw exactly when isValid is false.
C17_ValidExactlyWhenComplete ==
  startup.called =>
    LET url == config.BAASIX_URL
        token == config.BAASIX_AUTH_TOKEN \notin {Undef, ""}
        both == /\ config.BAASIX_EMAIL \notin {Undef, ""}
                /\ config.BAASIX_PASSWORD \notin {Undef, ""}
        urlOk == url \notin {Undef, ""} /\ url \in AbsoluteUrls
    IN  /\ startup.isValid <=> (urlOk /\ (token \/ both))
        /\ (token /\ both) =>
             /\ startup.warnings =
                  <<"Both token and credentials provided - token will take priority">>
             /\ startup.isValid <=> urlOk
        /\ ~(token /\ both) => startup.warnings = <<>>
        /\ startup.thrown <=> ~startup.isValid

\* createConfig accepted a configuration with a token and email and password,
\* and warned about it.
C17_Witness ==
  /\ startup.called
  /\ config.BAASIX_AUTH_TOKEN = "explicit-token"
  /\ config.BAASIX_EMAIL = "a@b.com"
  /\ config.BAASIX_PASSWORD = "x"
  /\ startup.isValid
  /\ ~startup.thrown
  /\ startup.warned = <<"Both token and credentials provided - token will take priority">>

\* msg (a sequence of message parts) contains the part m.
Contains(msg, m) == \E i \in DOMAIN msg : msg[i] = m

LoginFailures == HttpErrors \cup NetworkErrors

\* C18 as stated: when a login exchange fails, the invocation is over (no
\* other login, no request) and it fails with an error whose message contains
\* the upstream login error message.
C18_FailedLoginFailsInvocation ==
  [][\A p \in Slots, r \in LoginFailures :
       (LoginResponse(p, r) \/ ReloginResponse(p, r)) =>
         /\ inv'[p].pc = "done"
         /\ inv'[p].log = inv[p].log
         /\ inv'[p].result.kind = "error"
         /\ Contains(inv'[p].result.msg, UpstreamMessage(r))
    ]_vars

\* C18 amended: when a login exchange fails, the invocation is over in the
\* same step (no other login, no request, the cache as it was) and stays so.
\* A handler without a try/catch of its own fails with an InternalError whose
\* message contains the upstream login error message; baasix_auth_status and
\* baasix_refresh_auth answer with a success envelope whose payload contains
\* it; baasix_server_info answers with a success envelope holding a generic
\* error, its request having been rejected with the upstream message.
C18_FailedLoginNotRetried ==
  [][/\ \A p \in Slots, r \in LoginFailures :
          (LoginResponse(p, r) \/ ReloginResponse(p, r)) =>
            /\ inv'[p].pc = "done"
            /\ inv'[p].log = inv[p].log
            /\ authToken' = authToken
            /\ authExpiry' = authExpiry
            /\ Propagates(inv[p].tool) =>
                 /\ inv'[p].result.kind = "error"
                 /\ inv'[p].result.code = "InternalError"
                 /\ Contains(inv'[p].result.msg, "Authentication failed: ")
                 /\ Contains(inv'[p].result.msg, UpstreamMessage(r))
            /\ HandlerOf(inv[p].tool) \in {"auth_status", "refresh_auth"} =>
                 /\ inv'[p].result.kind = "success"
                 /\ Contains(inv'[p].result.body, UpstreamMessage(r))
            /\ HandlerOf(inv[p].tool) = "server_info" =>
                 /\ inv'[p].result =
                      SuccessResult(<<"error", "Could not fetch Baasix server info">>)
                 /\ Contains(inv'[p].req.msg, UpstreamMessage(r))
     /\ \A p \in Slots :
          inv[p].pc = "done" => inv'[p] \in {inv[p], IdleSlot}
    ]_vars

\* A list-items invocation whose first login was refused with message m2
\* ended after that one login, in an error carrying m2.
C18_Witness ==
  \E p \in Slots :
    /\ inv[p].pc = "done"
    /\ inv[p].tool = "baasix_list_items"
    /\ inv[p].log = <<"login">>
    /\ inv[p].result = ErrorResult("InternalError",
         <<"Tool execution failed: ", "Authentication failed: ", "m2">>)

\* C19: in email/password mode a dispatch of baasix_refresh_auth clears the
\* cached token and expiry and posts one login, whether or not the cached
\* token had expired; when the login is answered with a token the cache holds
\* that token, expiring 3600 s after the answer, and the invocation ends in a
\* success after that single login.
C19_RefreshForcesLogin ==
  [][/\ \A p \in Slots :
          (EmailMode /\ Dispatch(p, "baasix_refresh_auth", SomeArgs)) =>
            /\ authToken' = Null
            /\ authExpiry' = NullExpiry
            /\ inv'[p].pc = "login"
            /\ inv'[p].log = <<"clear", "login">>
     /\ \A p \in Slots, l \in LoginOk :
          ( /\ EmailMode
            /\ inv[p].tool = "baasix_refresh_auth"
            /\ LoginResponse(p, l) ) =>
            /\ authToken' = l.data
            /\ authExpiry' = <<now + SpecWindow>>
            /\ inv'[p].pc = "done"
            /\ inv'[p].log = <<"clear", "login">>
            /\ inv'[p].result.kind = "success"
    ]_vars

\* No time has passed since process start: an invocation obtained tokA and
\* its request is still in flight, and a refresh dispatched after it replaced
\* the unexpired tokA by tokB.
C19_Witness ==
  /\ EmailMode
  /\ now = 0
  /\ dispatched = 2
  /\ authToken = "tokB"
  /\ authExpiry = <<SpecWindow>>
  /\ \E p, q \in Slots :
       /\ inv[p].tool = "baasix_refresh_auth"
       /\ inv[p].pc = "done"
       /\ inv[p].log = <<"clear", "login">>
       /\ inv[p].result.kind = "success"
       /\ inv[q].pc = "request"
       /\ inv[q].token = "tokA"
       /\ inv[q].log = <<"login", "request">>

\* C20: logins are not single-flight.  Whatever the cache holds, and whoever
\* wrote it, a successful login answer overwrites the cached token and expiry
\* with its own, and leaves the other invocations as they are: the last
\* login answer processed determines the cache.
C20_LastLoginWins ==
  [][\A p \in Slots, l \in LoginOk :
       (EmailMode /\ (LoginResponse(p, l) \/ ReloginResponse(p, l))) =>
         /\ authToken' = l.data
         /\ authExpiry' = <<now + TokenTTL>>
         /\ \A q \in Slots \ {p} : inv'[q] = inv[q]
    ]_vars

\* The only two invocations since process start both found the cache empty
\* and both logged in (no time has passed and nothing was invalidated, so the
\* second was dispatched while the first login was in flight); the first got
\* tokA, which the second's tokB has overwritten in the cache.
C20_Witness ==
  /\ EmailMode
  /\ now = 0
  /\ dispatched = 2
  /\ inv[1].log = <<"login", "request">>
  /\ inv[2].log = <<"login", "request">>
  /\ inv[1].pc = "request"
  /\ inv[2].pc = "request"
  /\ inv[1].token = "tokA"
  /\ inv[2].token = "tokB"
  /\ authToken = "tokB"

\* The elements of a sequence.
Range(seq) == {seq[i] : i \in DOMAIN seq}

\* C23: the list-tools handler always returns the same sequence of names,
\* pairwise distinct; a dispatched name fails with MethodNotFound exactly when
\* it is not in that list, so every advertised name reaches a handler and
\* every name that reaches a handler is advertised.
C23_CatalogIsDispatchTable ==
  [][/\ \A p \in Slots :
          ListTools(p) =>
            /\ inv'[p].result = SuccessResult(ListedTools)
            /\ \A i, j \in DOMAIN inv'[p].result.body :
                 inv'[p].result.body[i] = inv'[p].result.body[j] => i = j
     /\ \A p \in Slots, name \in CatalogNames :
          Dispatch(p, name, SomeArgs) =>
            ( (inv'[p].pc = "done" /\ inv'[p].result.code = "MethodNotFound")
                <=> name \notin Range(ListedTools) )
    ]_vars

\* The catalog was listed while the last tool it advertises is being served.
C23_Witness ==
  \E p, q \in Slots :
    /\ inv[p].tool = "tools/list"
    /\ inv[p].pc = "done"
    /\ Len(inv[p].result.body) = 49
    /\ inv[q].tool = "baasix_get_current_user"
    /\ inv[q].pc \in {"login", "haveToken"}

\* C24 as stated: dispatching any name the README lists under 'Available
\* Tools' reaches a handler and does not fail with MethodNotFound.
C24_ReadmeToolsAreKnown ==
  [][\A p \in Slots, name \in ReadmeTools :
       Dispatch(p, name, SomeArgs) => inv'[p].result.code # "MethodNotFound"
    ]_vars

\* C25: createConfig with the process environment enabled resolves each of
\* the four values as: the process environment's value when it is set and not
\* empty, else the .env file's value when the file has the key, else the
\* built-in default (when defaults are enabled); and on a configuration that
\* resolves both a token and email and password, getAuthToken returns the
\* explicit token whatever the cache holds and whatever the time.
C25_ResolutionPriority ==
  [][\A penv \in ConfigEnvs, dotenv \in ConfigDotEnvs, useDefaults \in BOOLEAN :
       CreateConfig(penv, dotenv, useDefaults, TRUE) =>
         /\ \A k \in envVars :
              config'[k] =
                IF penv[k] \notin {Undef, ""} THEN penv[k]
                ELSE IF dotenv[k] # Undef THEN dotenv[k]
                ELSE IF useDefaults THEN DEFAULT_CONFIG[k]
                ELSE Undef
         /\ ( /\ config'.BAASIX_AUTH_TOKEN \notin {Undef, ""}
              /\ config'.BAASIX_EMAIL \notin {Undef, ""}
              /\ config'.BAASIX_PASSWORD \notin {Undef, ""} ) =>
              \A tok \in Tokens \cup {Null}, exp \in {NullExpiry, <<TokenTTL>>},
                 t \in {0, TokenTTL} :
                getAuthToken(config', tok, exp, t) =
                  [kind |-> "return", value |-> config'.BAASIX_AUTH_TOKEN]
    ]_vars

\* A resolved configuration with a value from each source: the token from
\* the process environment, the URL from the .env file, the password from
\* the defaults (and the .env file's empty email in place of the default).
C25_Witness ==
  /\ startup.called
  /\ config.BAASIX_AUTH_TOKEN = "explicit-token"
  /\ config.BAASIX_URL = "http://localhost:9000"
  /\ config.BAASIX_PASSWORD = "admin@123"
  /\ config.BAASIX_EMAIL = ""

\* C28: in every reachable state the cached token and the cached expiry are
\* consistent as a pair: a truthy cached token has an expiry, a null expiry
\* goes with a null token; and every step that changes either of them either
\* clears both, or is a successful login answer that writes the answer's token
\* and an expiry one validity window after the current time.
C28_TokenAndExpiryArePair ==
  /\ [](Truthy(authToken) => ExpiryTruthy(authExpiry))
  /\ [](authExpiry = NullExpiry => authToken = Null)
  /\ [][(authToken' # authToken \/ authExpiry' # authExpiry) =>
          \/ authToken' = Null /\ authExpiry' = NullExpiry
          \/ /\ authExpiry' = NewExpiry(now)
             /\ \E p \in Slots, r \in LoginOk :
                  /\ LoginResponse(p, r) \/ ReloginResponse(p, r)
                  /\ authToken' = r.data
       ]_vars

\* Two invocations interleaved: slot 2's request is out with the token that
\* slot 1 has since cleared from the cache (token and expiry both gone), and
\* slot 1's new login is not answered yet.
C28_Witness ==
  /\ inv[1].pc = "relogin"
  /\ inv[2].pc = "request"
  /\ Truthy(inv[2].token)
  /\ authToken = Null
  /\ authExpiry = NullExpiry

\* C29: in email/password mode an invocation issues at most two login
\* exchanges, at most one before its request and at most one after the cache
\* was cleared on the 401; a retry is always immediately preceded, in the
\* invocation's own history, by the clearing of the cache and a login
\* exchange; and a retry only ever starts at the answer to that login,
\* carrying the token of that answer.
C29_RetryFollowsOwnLogin ==
  /\ [](EmailMode =>
          \A p \in Slots :
            LET log == inv[p].log
            IN  /\ Count(log, "login") <= 2
                /\ Count(log, "clear") <= 1
                /\ \A i, j \in DOMAIN log :
                     (i < j /\ log[i] = "login" /\ log[j] = "login") =>
                       \E k \in DOMAIN log : i < k /\ k < j /\ log[k] = "clear"
                /\ \A i \in DOMAIN log :
                     log[i] = "retry" =>
                       i >= 3 /\ log[i-1] = "login" /\ log[i-2] = "clear")
  /\ [][\A p \in Slots :
          (EmailMode /\ inv'[p].pc = "retry" /\ inv[p].pc # "retry") =>
            \E l \in LoginOk :
              /\ ReloginResponse(p, l)
              /\ Truthy(l.data)
              /\ inv'[p].token = l.data
       ]_vars

\* Slot 1 logged in twice and its retry is out with the token of its second
\* login, while the cache holds another token, written since by slot 2's login.
C29_Witness ==
  /\ EmailMode
  /\ inv[1].pc = "retry"
  /\ inv[1].log = <<"login", "request", "clear", "login", "retry">>
  /\ Truthy(authToken)
  /\ authToken # inv[1].token

\* Another invocation is in flight whose request went out with the same
\* token as slot p's: it still waits for the answer, or it was answered 401
\* and waits for its new login.
SharesTokenInFlight(p) ==
  /\ Truthy(inv[p].token)
  /\ \E q \in Slots \ {p} :
       /\ inv[q].pc \in {"request", "relogin"}
       /\ inv[q].token = inv[p].token

\* C26: in email/password mode, with another invocation in flight that sent
\* its request with the same cached token, an invocation whose request is
\* answered 401 clears the cache and posts a login exchange (the
\* invalidate-refresh-retry step), also when the other invocation has already
\* cleared the cache and its login is still unanswered.
C26_Every401IsRetried ==
  [][\A p \in Slots, r \in Unauthorized :
       (EmailMode /\ SharesTokenInFlight(p) /\ ApiResponse(p, r)) =>
         /\ inv'[p].pc = "relogin"
         /\ inv'[p].log = inv[p].log \o <<"clear", "login">>
    ]_vars

\* C27 as stated: a 401 in email/password mode that finds in the cache a
\* token other than the one the rejected request carried leaves the cache
\* as it is.
C27_NewerTokenIsKept ==
  [][\A p \in Slots, r \in Unauthorized :
       ( /\ EmailMode
         /\ Truthy(authToken)
         /\ authToken # inv[p].token
         /\ ApiResponse(p, r) ) =>
         /\ authToken' = authToken
         /\ authExpiry' = authExpiry
    ]_vars

\* C27: a 401 in email/password mode that finds any token in the cache clears
\* token and expiry, whether or not the cached token is the one the rejected
\* request carried: a newer token cached by another invocation is discarded.
C27_ClearsWhateverIsCached ==
  [][\A p \in Slots, r \in Unauthorized :
       (EmailMode /\ Truthy(authToken) /\ ApiResponse(p, r)) =>
         /\ authToken' = Null
         /\ authExpiry' = NullExpiry
         /\ inv'[p].pc = "relogin"
    ]_vars

\* Only two invocations ever ran, each with a login of its own: slot 2's
\* login was answered last and its request is out with that newer token;
\* slot 1 was then answered 401 for the older token, and the cache, which
\* held the newer one, is empty.
C27_Witness ==
  /\ EmailMode
  /\ dispatched = 2
  /\ inv[1].pc = "relogin"
  /\ inv[1].log = <<"login", "request", "clear", "login">>
  /\ inv[2].pc = "request"
  /\ inv[2].log = <<"login", "request">>
  /\ Truthy(inv[1].token)
  /\ Truthy(inv[2].token)
  /\ inv[2].token # inv[1].token
  /\ authToken = Null
  /\ authExpiry = NullExpiry

\* The login posted by the retry path, or by baasix_refresh_auth, of slot p.
LoginAfterClear(p) ==
  \/ inv[p].pc = "relogin"
  \/ inv[p].pc = "login" /\ HandlerOf(inv[p].tool) = "refresh_auth"

Waiting(p) == inv[p].pc \in {"login", "request", "relogin", "retry"}

\* C21: while the invocation of one slot is suspended on a backend call, for
\* however long, the other slot is not held up: when it is free, any
\* invocation can be dispatched into it; when its invocation has a
\* continuation ready or waits for a backend call itself, that continuation
\* can run and any answer to that call can be taken (so two suspended
\* invocations can complete in either order); when it holds an answer, the
\* answer can be written out.  And a step of one invocation leaves the other
\* invocation as it is.
C21_SuspensionBlocksOnlyItself ==
  /\ [](\A p \in Slots : Waiting(p) =>
          \A q \in Slots \ {p} :
            /\ inv[q].pc = "done" => ENABLED Collect(q)
            /\ (inv[q].pc = "idle" /\ dispatched < MaxDispatches) =>
                 \A c \in DispatchedCalls : ENABLED Dispatch(q, c[1], c[2])
            /\ inv[q].pc = "haveToken" => ENABLED Resume(q)
            /\ inv[q].pc = "login" =>
                 \A r \in LoginResponses : ENABLED LoginResponse(q, r)
            /\ inv[q].pc = "request" =>
                 \A r \in ApiResponses : ENABLED ApiResponse(q, r)
            /\ inv[q].pc = "relogin" =>
                 \A r \in LoginResponses : ENABLED ReloginResponse(q, r)
            /\ inv[q].pc = "retry" =>
                 \A r \in ApiResponses : ENABLED RetryResponse(q, r))
  /\ [][\A p, q \in Slots :
          (p # q /\ inv'[q] # inv[q]) => inv'[p] = inv[p]]_vars

\* The first invocation still waits for the answer to its request, while the
\* second one, dispatched after it, has logged in, sent its request and
\* completed with the answer.
C21_Witness ==
  /\ dispatched = 2
  /\ inv[1].pc = "request"
  /\ inv[2].pc = "done"
  /\ inv[2].log = <<"login", "request">>
  /\ inv[2].result.kind = "success"

\* Position of an invocation in its life: received, executing (in the order
\* of baasixRequest's awaits), settled.
Rank(pc) ==
  CASE pc = "idle" -> 0
    [] pc \in {"haveToken", "login"} -> 1
    [] pc = "request" -> 2
    [] pc = "relogin" -> 3
    [] pc = "retry" -> 4
    [] pc = "done" -> 5

\* C22: when every backend call is eventually answered, every invocation
\* that is dispatched eventually settles (succeeded or failed).  It moves
\* forward only: a dispatch leaves it executing a handler of a known tool or
\* settled, every later step of it is further on in the handler, and once it
\* has settled nothing changes it until its answer is written out and the
\* slot is free for the next invocation.
C22_EveryInvocationSettles ==
  /\ \A p \in Slots : (inv[p].pc # "idle") ~> (inv[p].pc = "done")
  /\ [](\A p \in Slots :
          (inv[p].pc \notin {"idle", "done"}) => IsKnownTool(inv[p].tool))
  /\ [](\A p \in Slots :
          inv[p].pc = "done" => inv[p].result.kind \in {"success", "error"})
  /\ [][\A p \in Slots :
          inv'[p] # inv[p] =>
            IF inv[p].pc = "done"
              THEN Collect(p)
              ELSE Rank(inv'[p].pc) > Rank(inv[p].pc)
       ]_vars

\* An invocation that went through every wait of the handler (login, request,
\* 401, second login, retry) has settled, while the other one is still
\* waiting for its backend call.
C22_Witness ==
  /\ inv[1].pc = "done"
  /\ inv[1].log = <<"login", "request", "clear", "login", "retry">>
  /\ inv[2].pc = "request"

\* The three tools whose handlers wrap their whole body in try/catch.
CatchesOwnErrors(name) ==
  HandlerOf(name) \in {"auth_status", "refresh_auth", "server_info"}

\* C31: baasix_auth_status, baasix_refresh_auth and baasix_server_info never
\* end in an error response.  When their login exchange fails, the two auth
\* tools answer with a success envelope whose payload carries 'Authentication
\* failed: <upstream message>' (baasix_refresh_auth with success: false);
\* when the login, the request or the retry of baasix_server_info fails, it
\* answers with a success envelope whose payload carries the error 'Could
\* not fetch Baasix server info'; none of these failures is logged.
C31_StatusToolsNeverFail ==
  /\ [](\A p \in Slots :
          (inv[p].pc = "done" /\ CatchesOwnErrors(inv[p].tool)) =>
            /\ inv[p].result.kind = "success"
            /\ ~inv[p].logged)
  /\ [][\A p \in Slots, r \in LoginFailures :
          (CatchesOwnErrors(inv[p].tool) /\ LoginResponse(p, r)) =>
            inv'[p].result =
              SuccessResult(
                CASE HandlerOf(inv[p].tool) = "auth_status" ->
                       <<"error">> \o AuthFailedMsg(r)
                  [] HandlerOf(inv[p].tool) = "refresh_auth" ->
                       <<"success: false", "error">> \o AuthFailedMsg(r)
                  [] HandlerOf(inv[p].tool) = "server_info" ->
                       <<"error", "Could not fetch Baasix server info">>)
       ]_vars
  /\ [][\A p \in Slots :
          ( /\ HandlerOf(inv[p].tool) = "server_info"
            /\ inv'[p].pc = "done"
            /\ inv'[p].req.kind = "rejected" ) =>
            inv'[p].result =
              SuccessResult(<<"error", "Could not fetch Baasix server info">>)
       ]_vars

\* baasix_auth_status, whose login was refused with the backend's message
\* m1, answered with a success envelope that carries the error.
C31_Witness ==
  \E p \in Slots :
    /\ inv[p].tool = "baasix_auth_status"
    /\ inv[p].pc = "done"
    /\ inv[p].log = <<"login">>
    /\ inv[p].result = SuccessResult(<<"error", "Authentication failed: ", "m1">>)

\* The login of slot p's first getAuthToken call is answered 2xx without a
\* token.
TokenlessLogin(p, l) == l.data = Undef /\ LoginResponse(p, l)

\* C32 as stated: the request that went out without a bearer header after a
\* tokenless login is never retried on a 401: the invocation fails at once
\* and the cache is left alone.
C32_TokenlessRequestNeverRetried ==
  [][\A p \in Slots, r \in Unauthorized :
       ( /\ EmailMode
         /\ inv[p].token = Undef
         /\ ApiResponse(p, r) ) =>
         /\ inv'[p].pc = "done"
         /\ inv'[p].log = inv[p].log
         /\ authToken' = authToken
         /\ authExpiry' = authExpiry
    ]_vars

\* C32: a 2xx login answer without a token leaves an undefined cached token
\* with an expiry one window ahead; the request of a handler that calls
\* baasixRequest goes out without a token; as long as the cache holds no
\* token, a 401 answer to that request is not retried (the invocation fails
\* with the API error and the cache is left alone) and every getAuthToken
\* call, at any time, posts a new login instead of using the cache.
C32_TokenlessLogin ==
  /\ [][\A p \in Slots, l \in LoginOk :
          TokenlessLogin(p, l) =>
            /\ authToken' = Undef
            /\ authExpiry' = NewExpiry(now)
            /\ ~CatchesOwnErrors(inv[p].tool) \/ HandlerOf(inv[p].tool) = "server_info" =>
                 /\ inv'[p].pc = "request"
                 /\ inv'[p].token = Undef
                 /\ inv'[p].log = Append(inv[p].log, "request")
       ]_vars
  /\ [][\A p \in Slots, r \in Unauthorized :
          ( /\ EmailMode
            /\ inv[p].token = Undef
            /\ ~Truthy(authToken)
            /\ ApiResponse(p, r) ) =>
            /\ inv'[p].pc = "done"
            /\ inv'[p].log = inv[p].log
            /\ inv'[p].req = Rejected(ApiErrorMsg(<<r.message>>))
            /\ authToken' = authToken
            /\ authExpiry' = authExpiry
       ]_vars
  /\ [](\A t \in {now, now + TimeStep} :
          (EmailMode /\ ~Truthy(authToken)) =>
            getAuthToken(config, authToken, authExpiry, t).kind = "login")

\* After a tokenless login the cache holds no token but an expiry, the
\* request went out without a token and was answered 401: the invocation
\* failed after one login and one request.
C32_Witness ==
  \E p \in Slots :
    /\ EmailMode
    /\ authToken = Undef
    /\ ExpiryTruthy(authExpiry)
    /\ inv[p].pc = "done"
    /\ inv[p].log = <<"login", "request">>
    /\ inv[p].req = Rejected(ApiErrorMsg(<<"m1">>))

IsSessionTool(name) == name \in {"baasix_login", "baasix_logout"}

\* C33: when the request (or the retry) of baasix_login or baasix_logout is
\* answered 2xx, the answer's body is returned and the cached token and
\* expiry are as before, so a getAuthToken call made while the cached token
\* is unexpired still returns that token; and during an invocation of either
\* tool the cache changes only by getAuthToken's own login answer or by the
\* clearing on a 401.
C33_SessionToolsLeaveCache ==
  /\ [][\A p \in Slots, r \in OkResponses :
          ( /\ IsSessionTool(inv[p].tool)
            /\ ApiResponse(p, r) \/ RetryResponse(p, r) ) =>
            /\ inv'[p].result = SuccessResult(<<r.data>>)
            /\ authToken' = authToken
            /\ authExpiry' = authExpiry
            /\ \A t \in {now, now + TimeStep} :
                 (~ExplicitMode /\ CachedTokenValid(authToken, authExpiry, t)) =>
                   getAuthToken(config, authToken', authExpiry', t) =
                     [kind |-> "return", value |-> authToken]
       ]_vars
  /\ [][\A p \in Slots :
          ( /\ IsSessionTool(inv[p].tool)
            /\ inv'[p] # inv[p]
            /\ authToken' # authToken \/ authExpiry' # authExpiry ) =>
            \/ \E l \in LoginOk : LoginResponse(p, l) \/ ReloginResponse(p, l)
            \/ \E r \in Unauthorized :
                 ShouldRetry(r, authToken, config) /\ ApiResponse(p, r)
       ]_vars

\* baasix_logout went out with the cached token and succeeded; the cache
\* still holds that token, which the other invocation's request carries too.
C33_Witness ==
  /\ EmailMode
  /\ inv[2].tool = "baasix_logout"
  /\ inv[2].pc = "done"
  /\ inv[2].log = <<"request">>
  /\ inv[2].result.kind = "success"
  /\ inv[1].pc = "request"
  /\ Truthy(authToken)
  /\ ExpiryTruthy(authExpiry)
  /\ authToken = inv[1].token

\* C34: baasix_auth_status in email/password mode.  With an unexpired token
\* in the cache it makes no backend call and leaves the cache as it is, and
\* answers from the cache.  With an empty or expired cache it posts one login
\* and nothing else; when that login returns a token, token and expiry are
\* cached and the answer reports the state after the login: authenticated,
\* expiry set, cached token valid.
C34_AuthStatusReadsOrLogsIn ==
  /\ [][\A p \in Slots :
          (EmailMode /\ Dispatch(p, "baasix_auth_status", SomeArgs)) =>
            /\ authToken' = authToken
            /\ authExpiry' = authExpiry
            /\ IF CachedTokenValid(authToken, authExpiry, now)
                 THEN /\ inv'[p].pc = "haveToken"
                      /\ inv'[p].token = authToken
                      /\ inv'[p].log = <<>>
                 ELSE /\ inv'[p].pc = "login"
                      /\ inv'[p].log = <<"login">>
       ]_vars
  /\ [][\A p \in Slots :
          (EmailMode /\ inv[p].tool = "baasix_auth_status" /\ Resume(p)) =>
            /\ authToken' = authToken
            /\ authExpiry' = authExpiry
            /\ inv'[p].pc = "done"
            /\ inv'[p].log = <<>>
            /\ inv'[p].result =
                 SuccessResult(StatusPayload(inv[p].token, authToken, authExpiry, now))
       ]_vars
  /\ [][\A p \in Slots, l \in LoginOk :
          ( /\ inv[p].tool = "baasix_auth_status"
            /\ Truthy(l.data)
            /\ LoginResponse(p, l) ) =>
            /\ authToken' = l.data
            /\ authExpiry' = NewExpiry(now)
            /\ inv'[p].pc = "done"
            /\ inv'[p].log = <<"login">>
            /\ inv'[p].result =
                 SuccessResult(<<"authenticated: true", "auto_login_expires: set",
                                 "auto_login_valid: true">>)
       ]_vars
  /\ [](\A p \in Slots :
          inv[p].tool = "baasix_auth_status" => inv[p].log \in {<<>>, <<"login">>})

\* baasix_auth_status answered from the cache, without a backend call of its
\* own, while the invocation that logged in still waits for its request.
C34_Witness ==
  /\ EmailMode
  /\ inv[1].pc = "request"
  /\ inv[1].log = <<"login", "request">>
  /\ authToken = inv[1].token
  /\ inv[2].tool = "baasix_auth_status"
  /\ inv[2].pc = "done"
  /\ inv[2].log = <<>>
  /\ inv[2].result =
       SuccessResult(<<"authenticated: true", "auto_login_expires: set",
                       "auto_login_valid: true">>)

\* The tools whose handler destructures `args` in its first statement.
ReadsArgsTools ==
  SwitchCases \ (NoArgsTools \cup
    {"baasix_auth_status", "baasix_refresh_auth", "baasix_server_info"})

\* C35: a known tool whose handler reads fields of its arguments, called
\* without an arguments mapping, fails in the dispatch itself with a logged
\* InternalError 'Tool execution failed: ...': getAuthToken has not been
\* called, no login and no request has gone out, and the cached token and
\* expiry are as before.
C35_MissingArgumentsFailEarly ==
  [][\A p \in Slots, name \in ReadsArgsTools :
       Dispatch(p, name, Undef) =>
         /\ inv'[p].pc = "done"
         /\ inv'[p].result.kind = "error"
         /\ inv'[p].result.code = "InternalError"
         /\ inv'[p].result.msg[1] = "Tool execution failed: "
         /\ inv'[p].logged
         /\ inv'[p].log = <<>>
         /\ inv'[p].token = Undef
         /\ inv'[p].req = NoRequest
         /\ authToken' = authToken
         /\ authExpiry' = authExpiry
    ]_vars

\* baasix_list_schemas was called without arguments and failed at once,
\* while the cache holds the token another invocation's request carries.
C35_Witness ==
  /\ inv[1].pc = "request"
  /\ Truthy(authToken)
  /\ authToken = inv[1].token
  /\ inv[2].tool = "baasix_list_schemas"
  /\ inv[2].pc = "done"
  /\ inv[2].result.code = "InternalError"
  /\ inv[2].log = <<>>

=============================================================================
